---- MODULE Spec2Model ----
(***************************************************************************)
(* A model of galaxy_codex's extraction helpers:                           *)
(*   bin/shared.py               get_request_json, reduce_ontology_terms,  *)
(*                               export_to_json / load_json, read_file,    *)
(*                               read_suite_per_tool_id                    *)
(*   bin/extract_galaxy_tools.py get_all_installed_tool_ids_on_server and  *)
(*                               the filter / curate command dispatch      *)
(* Each part of the program has its own specification (SpecRetry,          *)
(* SpecServer, SpecMain, SpecOnto, SpecJson, SpecSuite); the variables of  *)
(* the other parts stay at their initial values.                           *)
(***************************************************************************)
EXTENDS Integers, Sequences, FiniteSets, TLC

VARIABLES
    \* ---- get_request_json (shared.py:98-133)
    pc,          \* position of the call: idle, loop, sleep, returned, raised, exited
    url,         \* the url argument
    retries,     \* the retries argument
    attempt,     \* the local counter `attempt`
    gets,        \* GET requests issued by the current call
    slept,       \* seconds slept by the current call
    outcomes,    \* outcomes of the GET requests of the current call, in order
    ret,         \* what the call gave its caller: a value or an exception
    calls,       \* calls made so far
    \* ---- get_all_installed_tool_ids_on_server (extract_galaxy_tools.py:40-59)
    cache,       \* the lru_cache of the function: argument -> returned list
    fetches,     \* GET requests issued so far, per requested server URL
    last,        \* the last call: its argument, what it did and what it gave
    \* ---- export_to_json / load_json / read_suite_per_tool_id (shared.py:65-95)
    jpc,         \* built, exported, loaded, read
    coll,        \* the suite collection in memory (`data`)
    jsonFile,    \* the JSON document in the file at output_fp
    loaded,      \* what load_json returned
    toolsById,   \* what read_suite_per_tool_id returned
    \* ---- reduce_ontology_terms (shared.py:166-204)
    opc,         \* given, reduced
    ontology,    \* the ontology: each class's direct super-classes
    terms,       \* the terms argument
    new_terms,   \* the list returned
    \* ---- the filter and curate commands (extract_galaxy_tools.py:155-218)
    mpc,         \* load, categories, status, run, done, crashed
    args,        \* the namespace parse_args returned
    fs,          \* the input files: path -> whether it exists, and its content
    imported,    \* the collection given to init_by_importing
    tools,       \* tools.tools
    categories,  \* the list read_file returned
    status,      \* the status table
    ran,         \* the stage that was run: filter_tools or curate_tools
    written,     \* the output paths written
    merr         \* the exception that ended the command, and the step it left

retryVars == <<pc, url, retries, attempt, gets, slept, outcomes, ret, calls>>
serverVars == <<cache, fetches, last>>
jsonVars == <<jpc, coll, jsonFile, loaded, toolsById>>
ontoVars == <<opc, ontology, terms, new_terms>>

mainVars == <<mpc, args, fs, imported, tools, categories, status, ran, written, merr>>

vars == <<retryVars, serverVars, jsonVars, ontoVars, mainVars>>

----------------------------------------------------------------------------
(* Bounds of the model *)

MaxCalls == 2          \* calls of get_request_json in one run
MaxRetries == 3        \* largest retries argument a caller passes
MaxSlashes == 1        \* trailing "/" characters on a server URL argument
MaxLen == 2            \* elements of a list-, tuple- or set-valued attribute
MaxSuites == 1         \* suites of a collection that is exported and reloaded
MaxToolSuites == 2     \* suites of the table read_suite_per_tool_id reads
NClasses == 3          \* classes of the ontology
MaxTerms == 3          \* terms given to reduce_ontology_terms

----------------------------------------------------------------------------
(* get_request_json *)

DefaultRetries == 3    \* retries: int = 3
delay == 2             \* delay: float = 2.0

Urls == {"https://bio.tools/api/t1", "https://bio.tools/api/t2"}

\* Parsed JSON bodies a successful response can carry.
EmptyDict == "{}"
Payloads == {EmptyDict, "{biotoolsID}"}

\* What one requests.get + raise_for_status + r.json() can do.  The classes are
\* those of the exception raised (requests.exceptions):
\*   conn     requests.get raises ConnectionError
\*   timeout  requests.get raises ReadTimeout (a Timeout, not a ConnectionError)
\*   http     raise_for_status raises HTTPError
\*   badjson  r.json() raises requests.exceptions.JSONDecodeError, which is an
\*            InvalidJSONError (a RequestException) and a json.JSONDecodeError
\*            (a ValueError)                                 (requests >= 2.27)
\*   badjson_legacy  r.json() raises json.JSONDecodeError, a ValueError only
\*                                                           (requests < 2.27)
FailureKinds == {"conn", "timeout", "http", "badjson", "badjson_legacy"}

Outcomes ==
    [kind : {"ok"}, json : Payloads] \cup [kind : FailureKinds, json : {"-"}]

ExcClasses(kind) ==
    CASE kind = "conn"    -> {"ConnectionError", "RequestException", "OSError", "Exception"}
      [] kind = "timeout" -> {"ReadTimeout", "Timeout", "RequestException", "OSError", "Exception"}
      [] kind = "http"    -> {"HTTPError", "RequestException", "OSError", "Exception"}
      [] kind = "badjson" -> {"JSONDecodeError", "InvalidJSONError", "RequestException",
                              "OSError", "ValueError", "Exception"}
      [] kind = "badjson_legacy" -> {"JSONDecodeError", "ValueError", "Exception"}
      [] OTHER -> {}

\* The except clauses of the try statement, in source order.
ExceptClauses == <<"ConnectionError", "RequestException", "ValueError">>

\* Python runs the first except clause whose class the exception is an
\* instance of; 0 when no clause matches.
MatchingClause(classes) ==
    LET hits == {i \in 1..Len(ExceptClauses) : ExceptClauses[i] \in classes}
    IN  IF hits = {} THEN 0 ELSE CHOOSE i \in hits : \A j \in hits : i <= j

\* as if the retry clause caught every RequestException
Handler_RetryAnyRequestError(kind) ==
    IF "RequestException" \in ExcClasses(kind) THEN "ConnectionError"
    ELSE IF "ValueError" \in ExcClasses(kind) THEN "ValueError" ELSE "uncaught"

Handler(kind) ==
    LET i == MatchingClause(ExcClasses(kind))
    IN  IF i = 0 THEN "uncaught" ELSE ExceptClauses[i]

\* `if attempt == retries:` after the increment
LastAttempt_OffByOne(a, n) == a > n

LastAttempt(a, n) == a = n

NoRet == [kind |-> "none", val |-> "-"]
Return(v) == [kind |-> "return", val |-> v]
Raise(exc, msg) == [kind |-> exc, val |-> msg]

\* def get_request_json(url, headers, retries=3, delay=2.0): attempt = 0
Call(u, n) ==
    /\ pc \in {"idle", "returned", "raised"}
    /\ calls < MaxCalls
    /\ calls' = calls + 1
    /\ url' = u
    /\ retries' = n
    /\ attempt' = 0
    /\ gets' = 0
    /\ slept' = 0
    /\ outcomes' = <<>>
    /\ ret' = NoRet
    /\ pc' = "loop"
    /\ UNCHANGED <<serverVars, jsonVars, ontoVars, mainVars>>

\* One pass of the while body: the GET request and the except clause it ends in.
Request(o) ==
    /\ pc = "loop"
    /\ attempt < retries
    /\ gets' = gets + 1
    /\ outcomes' = Append(outcomes, o)
    /\ IF o.kind = "ok"
       THEN /\ ret' = Return(o.json)
            /\ pc' = "returned"
            /\ attempt' = attempt
       ELSE CASE Handler(o.kind) = "ConnectionError" ->
                   /\ attempt' = attempt + 1
                   /\ IF LastAttempt(attempt + 1, retries)
                      THEN /\ ret' = Raise("ConnectionError",
                                           "Connection aborted after multiple retries")
                           /\ pc' = "raised"
                      ELSE /\ ret' = ret
                           /\ pc' = "sleep"
              [] Handler(o.kind) = "RequestException" ->
                   /\ ret' = Raise("SystemExit", "Request failed")
                   /\ pc' = "exited"
                   /\ attempt' = attempt
              [] Handler(o.kind) = "ValueError" ->
                   /\ ret' = Raise("ValueError", "Response content is not valid JSON")
                   /\ pc' = "raised"
                   /\ attempt' = attempt
              [] OTHER ->
                   /\ ret' = Raise("Exception", o.kind)
                   /\ pc' = "raised"
                   /\ attempt' = attempt
    /\ UNCHANGED <<url, retries, slept, calls>>
    /\ UNCHANGED <<serverVars, jsonVars, ontoVars, mainVars>>

\* time.sleep(delay), then back to the loop test
Sleep ==
    /\ pc = "sleep"
    /\ slept' = slept + delay
    /\ pc' = "loop"
    /\ UNCHANGED <<url, retries, attempt, gets, outcomes, ret, calls>>
    /\ UNCHANGED <<serverVars, jsonVars, ontoVars, mainVars>>

\* the loop test fails: return {}
Fallback ==
    /\ pc = "loop"
    /\ ~(attempt < retries)
    /\ ret' = Return(EmptyDict)
    /\ pc' = "returned"
    /\ UNCHANGED <<url, retries, attempt, gets, slept, outcomes, calls>>
    /\ UNCHANGED <<serverVars, jsonVars, ontoVars, mainVars>>

RetryInit ==
    /\ pc = "idle"
    /\ url = "-"
    /\ retries = DefaultRetries
    /\ attempt = 0
    /\ gets = 0
    /\ slept = 0
    /\ outcomes = <<>>
    /\ ret = NoRet
    /\ calls = 0

RetryNext ==
    \/ \E u \in Urls, n \in 0..MaxRetries : Call(u, n)
    \/ \E o \in Outcomes : Request(o)
    \/ Sleep
    \/ Fallback

----------------------------------------------------------------------------
(* get_all_installed_tool_ids_on_server *)

\* USEGALAXY_SERVER_URLS (two of the four configured servers)
Hosts == {"https://usegalaxy.org", "https://usegalaxy.eu"}

\* A URL is its host followed by single characters; the arguments of the
\* model are the configured URLs with 0..MaxSlashes trailing "/".
RECURSIVE Slashes(_)
Slashes(n) == IF n = 0 THEN <<>> ELSE Append(Slashes(n - 1), "/")

ServerArgs == {<<h>> \o Slashes(n) : h \in Hosts, n \in 0..MaxSlashes}

\* str.rstrip(chars): the string without its trailing characters of chars
RECURSIVE RStripChars(_, _)
RStripChars(s, chars) ==
    IF s # <<>> /\ s[Len(s)] \in chars
    THEN RStripChars(SubSeq(s, 1, Len(s) - 1), chars) ELSE s

\* str.rstrip("/")
RStrip(s) == RStripChars(s, {"/"})

\* galaxy_url = galaxy_url.rstrip("/"); the request goes to {galaxy_url}/api/tools
RequestedServer(u) == RStrip(u)

Servers == {RequestedServer(u) : u \in ServerArgs}

\* functools.lru_cache keys an entry on the argument the caller passed
CacheKey(u) == u

maxsize == 128         \* functools.lru_cache's default maxsize

\* Entries of the JSON list a server answers with: dictionaries with or
\* without an "id" key.
ToolIds == {"bwa", "fastqc"}
WithId(t) == [k \in {"id", "name"} |-> t]
WithoutId == [k \in {"name"} |-> "label"]
Bodies == {<<>>, <<WithId("bwa")>>, <<WithId("bwa"), WithId("fastqc")>>,
           <<WithId("bwa"), WithoutId>>}

\* What the query of one server can do: requests.get raises ConnectionError,
\* raise_for_status raises HTTPError, r.json() raises JSONDecodeError, or the
\* body parses to a list of dictionaries.
ServerOutcomes ==
    [kind : {"conn", "http", "badjson"}, body : {<<>>}] \cup [kind : {"ok"}, body : Bodies]

KeyErrorClasses == {"KeyError", "LookupError", "Exception"}

\* the exception the try block ends in, as its classes; {} when it ends in `return tools`
TryRaises(o) ==
    IF o.kind # "ok" THEN ExcClasses(o.kind)
    ELSE IF \E i \in 1..Len(o.body) : "id" \notin DOMAIN o.body[i] THEN KeyErrorClasses
    ELSE {}

\* tools = [tool_dict["id"] for tool_dict in tool_dict_list]
IdsOf(body) == [i \in 1..Len(body) |-> body[i]["id"]]

\* `except Exception as ex:`
Caught_OnlyRequestErrors(classes) == "RequestException" \in classes

Caught(classes) == "Exception" \in classes

NoCall == [arg |-> <<>>, requested |-> FALSE, outcome |-> "-", failed |-> FALSE,
           raised |-> FALSE, result |-> <<>>]

\* A call whose argument is in the cache: lru_cache answers, the body does not run.
CacheHit(u) ==
    /\ CacheKey(u) \in DOMAIN cache
    /\ last' = [arg |-> u, requested |-> FALSE, outcome |-> "-", failed |-> FALSE,
                raised |-> FALSE, result |-> cache[CacheKey(u)]]
    /\ UNCHANGED <<cache, fetches>>
    /\ UNCHANGED <<retryVars, jsonVars, ontoVars, mainVars>>

\* A call whose argument is not in the cache: the body runs, and lru_cache keeps
\* what it returns (an exception that leaves the body is not cached).
\* The run passes fewer than maxsize distinct arguments (four servers are
\* configured), so no entry is evicted.
CacheMiss(u, o) ==
    /\ CacheKey(u) \notin DOMAIN cache
    /\ Cardinality(DOMAIN cache) < maxsize
    /\ fetches' = [fetches EXCEPT ![RequestedServer(u)] = @ + 1]
    /\ LET exc == TryRaises(o)
           res == IF exc = {} THEN IdsOf(o.body) ELSE <<>>
           out == exc # {} /\ ~Caught(exc)
       IN  /\ last' = [arg |-> u, requested |-> TRUE, outcome |-> o.kind,
                       failed |-> exc # {}, raised |-> out, result |-> res]
           /\ cache' = IF out THEN cache
                       ELSE [k \in DOMAIN cache \cup {CacheKey(u)} |->
                                IF k = CacheKey(u) THEN res ELSE cache[k]]
    /\ UNCHANGED <<retryVars, jsonVars, ontoVars, mainVars>>

ServerInit ==
    /\ cache = <<>>
    /\ fetches = [s \in Servers |-> 0]
    /\ last = NoCall

ServerNext ==
    \/ \E u \in ServerArgs : CacheHit(u)
    \/ \E u \in ServerArgs, o \in ServerOutcomes : CacheMiss(u, o)

----------------------------------------------------------------------------
(* export_to_json / load_json *)

\* Python values, tagged with their type: s is the text of a scalar, q the
\* elements of a list or tuple, z those of a set
PyStr(x) == [py |-> "str", s |-> x, q |-> <<>>, z |-> {}]
PyInt(x) == [py |-> "int", s |-> x, q |-> <<>>, z |-> {}]
PyBool(b) == [py |-> "bool", s |-> IF b THEN "True" ELSE "False", q |-> <<>>, z |-> {}]
PyList(x) == [py |-> "list", s |-> "", q |-> x, z |-> {}]
PyTuple(x) == [py |-> "tuple", s |-> "", q |-> x, z |-> {}]
PySet(S) == [py |-> "set", s |-> "", q |-> <<>>, z |-> S]

\* JSON values of a document: s is the text of a scalar, q the elements of an
\* array, items the <<key, value>> members of an object in document order
JStr(x) == [j |-> "string", s |-> x, q |-> <<>>, items |-> <<>>]
JNum(x) == [j |-> "number", s |-> x, q |-> <<>>, items |-> <<>>]
JBool(b) == [j |-> IF b THEN "true" ELSE "false", s |-> "", q |-> <<>>, items |-> <<>>]
JArr(x) == [j |-> "array", s |-> "", q |-> x, items |-> <<>>]
JObj(x) == [j |-> "object", s |-> "", q |-> <<>>, items |-> x]

\* A dict is the sequence of its <<key, value>> items in insertion order.
Keys(d) == {d[i][1] : i \in DOMAIN d}
Get(d, k) == d[CHOOSE i \in DOMAIN d : d[i][1] = k][2]

\* the attribute names of the model, in the order sorted() gives them
SortedKeyNames ==
    <<"EDAM operation", "Galaxy tool ids", "Galaxy wrapper id", "Galaxy wrapper owner">>

\* sort_keys=True: the items of d by sorted key
SortedItems(d) ==
    LET Has(k) == k \in Keys(d)
        ks == SelectSeq(SortedKeyNames, Has)
    IN  [i \in 1..Len(ks) |-> <<ks[i], Get(d, ks[i])>>]

Perms(S) ==
    {q \in [1..Cardinality(S) -> S] : \A a, b \in 1..Cardinality(S) : a # b => q[a] # q[b]}

\* json's encoding of str, int, bool
EncodeScalar(x) ==
    CASE x.py = "str" -> JStr(x.s)
      [] x.py = "int" -> JNum(x.s)
      [] x.py = "bool" -> JBool(x.s = "True")

EncodeSeq(q) == JArr([i \in DOMAIN q |-> EncodeScalar(q[i])])

\* as if the hook were default=str: the object is written as one string
Default_Str(x) == {PyStr("set()")}

\* default=list: json calls list(o) on an object it cannot serialize; a set is
\* iterated in an order the program does not control
Default(x) == {PyList(p) : p \in Perms(x.z)}

\* the documents json.dump can write for one value
EncodeChoices(x) ==
    CASE x.py \in {"list", "tuple"} -> {EncodeSeq(x.q)}
      [] x.py = "set" -> {IF y.py = "list" THEN EncodeSeq(y.q) ELSE EncodeScalar(y) :
                             y \in Default(x)}
      [] OTHER -> {EncodeScalar(x)}

\* one dict, keys sorted
DumpDict(d) ==
    LET items == SortedItems(d)
        n == Len(items)
        all == UNION {EncodeChoices(items[i][2]) : i \in 1..n}
    IN  {JObj([i \in 1..n |-> <<items[i][1], f[i]>>]) :
            f \in {g \in [1..n -> all] : \A i \in 1..n : g[i] \in EncodeChoices(items[i][2])}}

\* json.dump(data, f, indent=4, sort_keys=sort_keys, default=default)
Dumps(c) ==
    LET n == Len(c)
        all == UNION {DumpDict(c[i]) : i \in 1..n}
    IN  {JArr(f) : f \in {g \in [1..n -> all] : \A i \in 1..n : g[i] \in DumpDict(c[i])}}

\* json.load
DecodeScalar(x) ==
    CASE x.j = "string" -> PyStr(x.s)
      [] x.j = "number" -> PyInt(x.s)
      [] x.j = "true" -> PyBool(TRUE)
      [] x.j = "false" -> PyBool(FALSE)

DecodeValue(x) ==
    IF x.j = "array" THEN PyList([i \in DOMAIN x.q |-> DecodeScalar(x.q[i])])
    ELSE DecodeScalar(x)

DecodeDict(x) == [i \in DOMAIN x.items |-> <<x.items[i][1], DecodeValue(x.items[i][2])>>]

Loads(doc) == [i \in DOMAIN doc.q |-> DecodeDict(doc.q[i])]

\* Python's == on the values of the model: values of different types are
\* unequal (a list never equals a tuple or a set)
PyEq(x, y) ==
    /\ x.py = y.py
    /\ CASE x.py \in {"list", "tuple"} ->
              /\ Len(x.q) = Len(y.q)
              /\ \A i \in DOMAIN x.q : x.q[i] = y.q[i]
         [] x.py = "set" -> x.z = y.z
         [] OTHER -> x.s = y.s

\* dict == dict: the same keys with equal values, whatever the order
DictEq(d, e) ==
    /\ Keys(d) = Keys(e)
    /\ \A k \in Keys(d) : PyEq(Get(d, k), Get(e, k))

\* list == list
CollEq(c, e) ==
    /\ Len(c) = Len(e)
    /\ \A i \in DOMAIN c : DictEq(c[i], e[i])

\* The collections of the model: suites with a scalar attribute and a
\* list-valued one, built in either key order.
Scalars == {PyStr("bwa"), PyInt("1"), PyBool(TRUE)}
Elems == {PyStr("bwa_mem"), PyStr("bwa_index")}
SeqsUpTo(S, n) == UNION {[1..m -> S] : m \in 0..n}
Containers ==
    {PyList(q) : q \in SeqsUpTo(Elems, MaxLen)}
    \cup {PyTuple(q) : q \in SeqsUpTo(Elems, MaxLen)}
    \cup {PySet(S) : S \in {T \in SUBSET Elems : Cardinality(T) <= MaxLen}}
SuiteDicts ==
    UNION {{<<<<"Galaxy wrapper id", a>>, <<"Galaxy tool ids", b>>>>,
            <<<<"Galaxy tool ids", b>>, <<"Galaxy wrapper id", a>>>>} :
           a \in Scalars, b \in Containers}
Collections == SeqsUpTo(SuiteDicts, MaxSuites)

NoFile == [j |-> "nofile", s |-> "", q |-> <<>>, items |-> <<>>]

\* export_to_json(data, output_fp)
ExportToJson ==
    /\ jpc = "built"
    /\ jsonFile' \in Dumps(coll)
    /\ jpc' = "exported"
    /\ UNCHANGED <<coll, loaded, toolsById>>
    /\ UNCHANGED <<retryVars, serverVars, ontoVars, mainVars>>

\* load_json(input_df)
LoadJson ==
    /\ jpc = "exported"
    /\ loaded' = Loads(jsonFile)
    /\ jpc' = "loaded"
    /\ UNCHANGED <<coll, jsonFile, toolsById>>
    /\ UNCHANGED <<retryVars, serverVars, ontoVars, mainVars>>

JsonIdle ==
    /\ jpc = "idle"
    /\ coll = <<>>
    /\ jsonFile = NoFile
    /\ loaded = <<>>
    /\ toolsById = <<>>

JsonInit ==
    /\ jpc = "built"
    /\ coll \in Collections
    /\ jsonFile = NoFile
    /\ loaded = <<>>
    /\ toolsById = <<>>

JsonNext ==
    \/ ExportToJson
    \/ LoadJson

----------------------------------------------------------------------------
(* read_suite_per_tool_id *)

\* The suite tables of the model, as an earlier stage exported them: every
\* suite has the four attributes the function reads.
ToolSuites ==
    {<<<<"Galaxy wrapper id", PyStr(w)>>, <<"Galaxy wrapper owner", PyStr(o)>>,
       <<"EDAM operation", PyList(e)>>, <<"Galaxy tool ids", PyList(t)>>>> :
        w \in {"bwa", "fastqc"}, o \in {"iuc", "devteam"},
        e \in {<<>>, <<PyStr("Sequence alignment")>>},
        t \in SeqsUpTo(Elems, MaxLen)}
ToolSuiteTables == SeqsUpTo(ToolSuites, MaxToolSuites)

\* the tool ids of suite["Galaxy tool ids"]
ToolsOf(suite) ==
    LET ids == Get(suite, "Galaxy tool ids").q IN {ids[i].s : i \in DOMAIN ids}

\* the dictionary assigned to tools[tool]
EntryOf(suite) ==
    [k \in {"Galaxy wrapper id", "Galaxy wrapper owner", "EDAM operation"} |->
        CASE k = "Galaxy wrapper id" -> Get(suite, "Galaxy wrapper id")
          [] k = "Galaxy wrapper owner" -> Get(suite, "Galaxy wrapper id")
          [] k = "EDAM operation" -> Get(suite, "EDAM operation")]

\* for suite in tool_suites: for tool in suite["Galaxy tool ids"]: tools[tool] = ...
RECURSIVE SuiteLoop(_, _)
SuiteLoop(suites, dict) ==
    IF suites = <<>> THEN dict
    ELSE LET suite == Head(suites)
             assigned == [t \in DOMAIN dict \cup ToolsOf(suite) |->
                             IF t \in ToolsOf(suite) THEN EntryOf(suite) ELSE dict[t]]
         IN  SuiteLoop(Tail(suites), assigned)

\* read_suite_per_tool_id(tool_fp)
ReadSuitePerToolId ==
    /\ jpc = "exported"
    /\ loaded' = Loads(jsonFile)
    /\ toolsById' = SuiteLoop(Loads(jsonFile), <<>>)
    /\ jpc' = "read"
    /\ UNCHANGED <<coll, jsonFile>>
    /\ UNCHANGED <<retryVars, serverVars, ontoVars, mainVars>>

SuiteInit ==
    /\ jpc = "exported"
    /\ coll \in ToolSuiteTables
    /\ jsonFile \in Dumps(coll)
    /\ loaded = <<>>
    /\ toolsById = <<>>

SuiteNext == ReadSuitePerToolId

----------------------------------------------------------------------------
(* reduce_ontology_terms *)

\* The classes of the ontology are 1..NClasses; class c carries the label
\* <<"label", c>>.  An ontology gives each class its direct super-classes, taken
\* among the classes before it.
Classes == 1..NClasses
None == 0
LabelOf(c) == <<"label", c>>
Labels == {LabelOf(c) : c \in Classes} \cup {<<"label", None>>}
Ontologies == {o \in [Classes -> SUBSET Classes] : \A c \in Classes : \A p \in o[c] : p < c}

\* ontology.search_one(label=term): the class with that label, or None
SearchOne(o, term) == IF term[2] \in DOMAIN o THEN term[2] ELSE None

\* cla.subclasses(): owlready2 yields the classes that have cla among their
\* direct super-classes (descendants() would give the classes below those too)
Subclasses(o, cla) == {c \in DOMAIN o : cla \in o[c]}

\* the filter loops of lines 182-196: cla is kept unless one of its subclasses
\* is one of check_classes
IncludeClass(o, cla, check_classes) ==
    ~\E subcla \in Subclasses(o, cla) :
        \E i \in DOMAIN check_classes : subcla = check_classes[i]

reduce_ontology_terms(ts, o) ==
    IF ts = <<>> THEN ts
    ELSE LET classes == [i \in DOMAIN ts |-> SearchOne(o, ts[i])]
             NotNone(cla) == cla # None
             check_classes == SelectSeq(classes, NotNone)
             Keep(cla) == IncludeClass(o, cla, check_classes)
             new_classes == SelectSeq(check_classes, Keep)
         IN  [i \in DOMAIN new_classes |-> LabelOf(new_classes[i])]

Reduce ==
    /\ opc = "given"
    /\ new_terms' = reduce_ontology_terms(terms, ontology)
    /\ opc' = "reduced"
    /\ UNCHANGED <<ontology, terms>>
    /\ UNCHANGED <<retryVars, serverVars, jsonVars, mainVars>>

OntoIdle ==
    /\ opc = "idle"
    /\ ontology = <<>>
    /\ terms = <<>>
    /\ new_terms = <<>>

OntoInit ==
    /\ opc = "given"
    /\ ontology \in Ontologies
    /\ terms \in SeqsUpTo(Labels, MaxTerms)
    /\ new_terms = <<>>

OntoNext == Reduce

----------------------------------------------------------------------------
(* The filter and curate commands *)

NoneArg == "None"

\* The attributes of the namespace: argparse sets those of the chosen
\* sub-parser (and `command`), and no others.
FilterArgs(c, st) ==
    [a \in {"command", "all", "categories", "filtered", "tsv_filtered", "status"} |->
        CASE a = "command" -> "filter"
          [] a = "all" -> "all.json"
          [] a = "categories" -> c
          [] a = "filtered" -> "filtered.json"
          [] a = "tsv_filtered" -> "filtered.tsv"
          [] a = "status" -> st]

CurateArgs(st) ==
    [a \in {"command", "filtered", "curated", "wo_biotools", "w_biotools", "status"} |->
        CASE a = "command" -> "curate"
          [] a = "filtered" -> "filtered.json"
          [] a = "curated" -> "curated.tsv"
          [] a = "wo_biotools" -> "wo_biotools.tsv"
          [] a = "w_biotools" -> "w_biotools.tsv"
          [] a = "status" -> st]

\* the flag whose file the previous stage wrote for this command
InputFlag(ns) == IF ns["command"] = "filter" THEN "all" ELSE "filtered"

\* Suites of the input JSON, with the attributes the stages look at.
Bwa == [id |-> "bwa", cats |-> {<<"Assembly">>}, biotools |-> "bwa"]
Fastqc == [id |-> "fastqc", cats |-> {<<"Metagenomics">>}, biotools |-> ""]
InputCollections == {<<>>, <<Bwa>>, <<Bwa, Fastqc>>}

\* A category file: its lines, each a string ending in a newline.
CategoryLines == <<<<"Assembly", "\n">>, <<"Metagenomics", " ", "\n">>>>
\* A status file, as pd.read_csv(...).to_dict("index") gives it.
StatusTable == [x \in {"bwa"} |-> [keep |-> FALSE, deprecated |-> FALSE]]
EmptyTable == <<>>

File(j, l, t) == [exists |-> TRUE, json |-> j, lines |-> l, table |-> t]
Missing == [exists |-> FALSE, json |-> <<>>, lines |-> <<>>, table |-> EmptyTable]

InputPaths == {"all.json", "filtered.json", "categories.txt", "status.tsv"}

\* x.rstrip(): without trailing whitespace
Whitespace == {" ", "\n", "\t"}

\* read_file(filepath)
read_file(files, filepath) ==
    IF filepath = NoneArg THEN <<>>
    ELSE IF files[filepath].exists
         THEN [i \in DOMAIN files[filepath].lines |->
                  RStripChars(files[filepath].lines[i], Whitespace)]
         ELSE <<>>

\* tools.filter_tools(categories, status): a suite stays when one of its
\* ToolShed categories is in the list and the status table does not say
\* keep = False
filter_tools(ts, cats, st) ==
    LET Stays(x) == /\ \E i \in DOMAIN cats : cats[i] \in x.cats
                    /\ (x.id \in DOMAIN st => st[x.id].keep)
    IN  SelectSeq(ts, Stays)

NoError == [exc |-> "none", at |-> "-"]

Crash(exc, step) ==
    /\ mpc' = "crashed"
    /\ merr' = [exc |-> exc, at |-> step]

\* tools.init_by_importing(tools=shared.load_json(args.all)), in both commands
LoadTools ==
    /\ mpc = "load"
    /\ IF "all" \notin DOMAIN args
       THEN /\ Crash("AttributeError", "load")
            /\ UNCHANGED <<imported, tools>>
       ELSE IF ~fs[args["all"]].exists
       THEN /\ Crash("FileNotFoundError", "load")
            /\ UNCHANGED <<imported, tools>>
       ELSE /\ imported' = fs[args["all"]].json
            /\ tools' = fs[args["all"]].json
            /\ mpc' = IF args["command"] = "filter" THEN "categories" ELSE "status"
            /\ merr' = merr
    /\ UNCHANGED <<args, fs, categories, status, ran, written>>
    /\ UNCHANGED <<retryVars, serverVars, jsonVars, ontoVars>>

\* categories = shared.read_file(args.categories)
ReadCategories ==
    /\ mpc = "categories"
    /\ categories' = read_file(fs, args["categories"])
    /\ mpc' = "status"
    /\ UNCHANGED <<args, fs, imported, tools, status, ran, written, merr>>
    /\ UNCHANGED <<retryVars, serverVars, jsonVars, ontoVars>>

\* filter: `if args.status:` read_csv, else {}; curate: read_csv inside
\* try/except Exception, {} when it raises
ReadStatus ==
    /\ mpc = "status"
    /\ IF args["command"] = "filter"
       THEN IF args["status"] = NoneArg
            THEN /\ status' = EmptyTable
                 /\ mpc' = "run"
                 /\ merr' = merr
            ELSE IF fs[args["status"]].exists
            THEN /\ status' = fs[args["status"]].table
                 /\ mpc' = "run"
                 /\ merr' = merr
            ELSE /\ Crash("FileNotFoundError", "status")
                 /\ status' = status
       ELSE /\ status' = IF args["status"] # NoneArg /\ fs[args["status"]].exists
                         THEN fs[args["status"]].table ELSE EmptyTable
            /\ mpc' = "run"
            /\ merr' = merr
    /\ UNCHANGED <<args, fs, imported, tools, categories, ran, written>>
    /\ UNCHANGED <<retryVars, serverVars, jsonVars, ontoVars>>

\* the stage itself and its exports, written only `if tools.tools:`
RunStage ==
    /\ mpc = "run"
    /\ IF args["command"] = "filter"
       THEN /\ tools' = filter_tools(tools, categories, status)
            /\ ran' = "filter_tools"
            /\ written' = IF filter_tools(tools, categories, status) # <<>>
                          THEN {args["filtered"], args["tsv_filtered"]} ELSE {}
       ELSE /\ tools' = tools
            /\ ran' = "curate_tools"
            /\ written' = IF tools # <<>>
                          THEN {args["curated"], args["wo_biotools"], args["w_biotools"]}
                          ELSE {}
    /\ mpc' = "done"
    /\ UNCHANGED <<args, fs, imported, categories, status, merr>>
    /\ UNCHANGED <<retryVars, serverVars, jsonVars, ontoVars>>

MainIdle ==
    /\ mpc = "idle"
    /\ args = <<>>
    /\ fs = <<>>
    /\ imported = <<>>
    /\ tools = <<>>
    /\ categories = <<>>
    /\ status = EmptyTable
    /\ ran = "none"
    /\ written = {}
    /\ merr = NoError

\* After parse_args: a filter or curate invocation with its required flags, the
\* optional flags given or not, and each input file present or not.
MainInit ==
    /\ mpc = "load"
    /\ args \in {FilterArgs(c, st) : c \in {NoneArg, "categories.txt"},
                                    st \in {NoneArg, "status.tsv"}}
                \cup {CurateArgs(st) : st \in {NoneArg, "status.tsv"}}
    /\ fs \in {f \in [InputPaths -> {Missing, File(<<>>, CategoryLines, EmptyTable),
                                     File(<<>>, <<>>, StatusTable)}
                                    \cup {File(c, <<>>, EmptyTable) : c \in InputCollections}] :
                 /\ f["categories.txt"] \in {Missing, File(<<>>, CategoryLines, EmptyTable)}
                 /\ f["status.tsv"] \in {Missing, File(<<>>, <<>>, StatusTable)}
                 /\ \A x \in {"all.json", "filtered.json"} :
                       IF x = args[InputFlag(args)]
                       THEN f[x] \in {Missing} \cup
                                     {File(c, <<>>, EmptyTable) : c \in InputCollections}
                       ELSE f[x] = Missing}
    /\ imported = <<>>
    /\ tools = <<>>
    /\ categories = <<>>
    /\ status = EmptyTable
    /\ ran = "none"
    /\ written = {}
    /\ merr = NoError

MainNext ==
    \/ LoadTools
    \/ ReadCategories
    \/ ReadStatus
    \/ RunStage

----------------------------------------------------------------------------
(* Specifications: one per part of the program *)

InitRetry == RetryInit /\ ServerInit /\ JsonIdle /\ OntoIdle /\ MainIdle
SpecRetry == InitRetry /\ [][RetryNext]_vars

InitServer == RetryInit /\ ServerInit /\ JsonIdle /\ OntoIdle /\ MainIdle
SpecServer == InitServer /\ [][ServerNext]_vars

InitJson == RetryInit /\ ServerInit /\ JsonInit /\ OntoIdle /\ MainIdle
SpecJson == InitJson /\ [][JsonNext]_vars

InitSuite == RetryInit /\ ServerInit /\ SuiteInit /\ OntoIdle /\ MainIdle
SpecSuite == InitSuite /\ [][SuiteNext]_vars

InitOnto == RetryInit /\ ServerInit /\ JsonIdle /\ OntoInit /\ MainIdle
SpecOnto == InitOnto /\ [][OntoNext]_vars

InitMain == RetryInit /\ ServerInit /\ JsonIdle /\ OntoIdle /\ MainInit
SpecMain == InitMain /\ [][MainNext]_vars

----------------------------------------------------------------------------
(* Claims about get_request_json *)

NGets == Len(outcomes)
LastKind == IF outcomes = <<>> THEN "-" ELSE outcomes[Len(outcomes)].kind

C2_OtherErrorsExit ==
    \A i \in 1..NGets :
        outcomes[i].kind \in {"http", "timeout"} =>
            /\ i = NGets
            /\ gets = i
            /\ pc = "exited"
            /\ ret.kind = "SystemExit"
            /\ slept = delay * (i - 1)

\* an HTTP error on the third attempt, after two connection-error retries
C2_Witness ==
    /\ NGets = 3
    /\ outcomes[1].kind = "conn" /\ outcomes[2].kind = "conn"
    /\ outcomes[3].kind = "http"
    /\ pc = "exited"

\* C3: a response whose body is not valid JSON ends the call with
\* ValueError("Response content is not valid JSON"), not with SystemExit.
C3_BadJsonIsValueError ==
    LastKind \in {"badjson", "badjson_legacy"} =>
        /\ pc = "raised"
        /\ ret = Raise("ValueError", "Response content is not valid JSON")

----------------------------------------------------------------------------
(* Claims about get_all_installed_tool_ids_on_server *)

RECURSIVE Range(_)
Range(q) == IF q = <<>> THEN {} ELSE {q[1]} \cup Range(Tail(q))

\* C4: the function never raises to its caller; when the server query fails
\* (connection failure, unsuccessful HTTP status, body that is not JSON, entry
\* without "id") it returns the empty list, so no tool id is in the result.
C4_NeverRaises ==
    /\ ~last.raised
    /\ last.failed => /\ last.result = <<>>
                      /\ \A t \in ToolIds : t \notin Range(last.result)

\* a listing with an entry that has no "id": caught, empty list returned
C4_Witness ==
    /\ last.requested
    /\ last.outcome = "ok"
    /\ last.failed
    /\ last.result = <<>>
    /\ ~last.raised

\* C5: the listing of each Galaxy server is fetched at most once, also when
\* the URLs of two calls differ only by trailing "/".
C5_FetchedOncePerServer ==
    \A srv \in Servers : fetches[srv] <= 1

----------------------------------------------------------------------------
(* Claims about export_to_json / load_json *)

\* every value of the collection is a string, an int, a bool or a list
OnlyJsonTypes(c) ==
    \A i \in DOMAIN c : \A k \in Keys(c[i]) :
        Get(c[i], k).py \in {"str", "int", "bool", "list"}

\* what an attribute value is reloaded as
ReloadedAs(x, y) ==
    CASE x.py = "tuple" -> y = PyList(x.q)
      [] x.py = "set" -> /\ y.py = "list"
                         /\ Len(y.q) = Cardinality(x.z)
                         /\ {y.q[i] : i \in DOMAIN y.q} = x.z
      [] OTHER -> PyEq(y, x)

\* C8 as stated: the reloaded collection equals the exported one, also when
\* it holds set- or tuple-valued attributes.
C8_RoundTripAny ==
    jpc = "loaded" => CollEq(loaded, coll)

\* C8 amended: a collection whose values are strings, integers, booleans or
\* lists is equal to its reload, whatever the order of its keys; a tuple is
\* reloaded as the list of its elements, a set as a list holding each of its
\* elements once.
C8_RoundTripJsonTypes ==
    jpc = "loaded" =>
        /\ OnlyJsonTypes(coll) => CollEq(loaded, coll)
        /\ Len(loaded) = Len(coll)
        /\ \A i \in DOMAIN coll :
              /\ Keys(loaded[i]) = Keys(coll[i])
              /\ \A k \in Keys(coll[i]) : ReloadedAs(Get(coll[i], k), Get(loaded[i], k))

\* a suite built with its keys out of sorted order and a two-element list,
\* reloaded equal
C8_Witness ==
    /\ jpc = "loaded"
    /\ Len(coll) = 1
    /\ coll[1][1][1] = "Galaxy wrapper id"
    /\ Get(coll[1], "Galaxy tool ids").py = "list"
    /\ Len(Get(coll[1], "Galaxy tool ids").q) = 2
    /\ OnlyJsonTypes(coll)
    /\ loaded # coll
    /\ CollEq(loaded, coll)

----------------------------------------------------------------------------
(* Claims about read_suite_per_tool_id *)

\* C10: the keys of the result are exactly the tool ids some suite lists, and
\* the entry of each tool id carries the wrapper id, the wrapper owner and the
\* EDAM operation of a suite that lists it.
C10_EntryOfListingSuite ==
    jpc = "read" =>
        /\ DOMAIN toolsById = UNION {ToolsOf(loaded[i]) : i \in DOMAIN loaded}
        /\ \A t \in DOMAIN toolsById :
              \E i \in DOMAIN loaded :
                  /\ t \in ToolsOf(loaded[i])
                  /\ toolsById[t]["Galaxy wrapper id"] = Get(loaded[i], "Galaxy wrapper id")
                  /\ toolsById[t]["Galaxy wrapper owner"] = Get(loaded[i], "Galaxy wrapper owner")
                  /\ toolsById[t]["EDAM operation"] = Get(loaded[i], "EDAM operation")

----------------------------------------------------------------------------
(* Claims about reduce_ontology_terms *)

\* the classes above c, through any number of intermediate classes
RECURSIVE SuperClasses(_, _)
SuperClasses(o, c) == o[c] \cup UNION {SuperClasses(o, p) : p \in o[c]}

\* C7: the result is the input terms found in the ontology, without those that
\* are a super-class (directly or through intermediate classes) of another
\* input term.
C7_DropsEverySuperClass ==
    opc = "reduced" =>
        LET Found(t) == SearchOne(ontology, t) # None
            IsSuper(t) == \E i \in DOMAIN terms :
                             /\ Found(terms[i])
                             /\ SearchOne(ontology, t) \in
                                    SuperClasses(ontology, SearchOne(ontology, terms[i]))
            Stays(t) == Found(t) /\ ~IsSuper(t)
        IN  new_terms = SelectSeq(terms, Stays)

----------------------------------------------------------------------------
(* Claims about the filter and curate commands *)

\* the optional flag was not given, or names a path that does not exist
Absent(flag) == args[flag] = NoneArg \/ ~fs[args[flag]].exists

\* C6: an optional category-list or status file that is not given, or whose
\* path does not exist, is read as empty, and reading it does not end the
\* command with an error.
C6_MissingOptionalIsEmpty ==
    /\ ("categories" \in DOMAIN args /\ Absent("categories")) =>
          /\ ~(mpc = "crashed" /\ merr.at = "categories")
          /\ categories = <<>>
    /\ ("status" \in DOMAIN args /\ Absent("status")) =>
          /\ ~(mpc = "crashed" /\ merr.at = "status")
          /\ status = EmptyTable

\* C9: each command loads the collection from the flag its parser defines for
\* the previous stage's JSON (filter: --all, curate: --filtered); when that
\* file exists the load succeeds, and a curate command that ends has run
\* curate_tools on the collection of --filtered.
C9_LoadsPreviousStageOutput ==
    (mpc # "load" /\ fs[args[InputFlag(args)]].exists) =>
        /\ ~(mpc = "crashed" /\ merr.at = "load")
        /\ imported = fs[args[InputFlag(args)]].json
        /\ (args["command"] = "curate" /\ mpc = "done") => ran = "curate_tools"

====
